---- MODULE Spec2Model ----
(***************************************************************************)
(* Formula-Clanker retrieval pipeline: markdown ingestion with the chunk   *)
(* cache (chunk.py), the vector build (create_vectors.py) and the query    *)
(* endpoints (app.py).                                                     *)
(*                                                                         *)
(* Text is a sequence of one-character strings.  A path below the markdown *)
(* input directory is <<directory, stem>>; a transcript JSON file is named *)
(* by a number.                                                            *)
(***************************************************************************)
EXTENDS Integers, Sequences, FiniteSets, TLC

(***************************************************************************)
(* Bounds of the model                                                     *)
(***************************************************************************)
\* file stems per sub-directory of the markdown input directory
NStems == 1
\* transcript JSON files in discord_jsons
NJson == 2
\* changes the environment makes to the file system in one behaviour
MaxEnv == 2
\* pipeline runs (chunk.py markdown, create_vectors.py) in one behaviour
MaxRuns == 2
\* records of a served vector database
MaxRecords == 3
\* largest top_k a client sends (the smallest is -MaxTopK)
MaxTopK == 3

(***************************************************************************)
(* Python helpers                                                          *)
(***************************************************************************)
NL == "\n"

Whitespace == {" ", NL, "\t"}

Min(S) == CHOOSE x \in S : \A y \in S : x <= y

Max(S) == CHOOSE x \in S : \A y \in S : x >= y

\* s[start:] of Python, start possibly negative
PySliceFrom(s, start) ==
    LET n == Len(s)
        b == IF start < 0 THEN (IF n + start < 0 THEN 0 ELSE n + start)
                          ELSE (IF start > n THEN n ELSE start)
    IN SubSeq(s, b + 1, n)

\* s[:stop] of Python, stop possibly negative
PySliceTo(s, stop) ==
    LET n == Len(s)
        e == IF stop < 0 THEN (IF n + stop < 0 THEN 0 ELSE n + stop)
                         ELSE (IF stop > n THEN n ELSE stop)
    IN SubSeq(s, 1, e)

\* s[::-1]
Reverse(s) == [i \in 1..Len(s) |-> s[Len(s) + 1 - i]]

\* str.strip()
Strip(s) ==
    LET keep == {i \in 1..Len(s) : s[i] \notin Whitespace}
    IN IF keep = {} THEN <<>> ELSE SubSeq(s, Min(keep), Max(keep))

\* str.split('\n\n'): leftmost, non-overlapping separators
RECURSIVE SplitParagraphs(_)
SplitParagraphs(s) ==
    LET hits == {i \in 1..(Len(s) - 1) : s[i] = NL /\ s[i + 1] = NL}
    IN IF hits = {} THEN <<s>>
       ELSE LET i == Min(hits)
            IN <<SubSeq(s, 1, i - 1)>> \o SplitParagraphs(SubSeq(s, i + 2, Len(s)))

Count(s, ch) == Cardinality({i \in 1..Len(s) : s[i] = ch})

Repeat(ch, n) == [i \in 1..n |-> ch]

(***************************************************************************)
(* chunk.py: the paragraph splitter                                        *)
(***************************************************************************)
DefaultChunkSize == 500

DefaultOverlap == 50

\* "test_chunk = current_chunk + '\n\n' + para if current_chunk else para"
TestChunk(current_chunk, para) ==
    IF current_chunk # <<>> THEN current_chunk \o <<NL, NL>> \o para ELSE para

\* "if len(test_chunk) > chunk_size and current_chunk"
MustClose(current_chunk, para, chunk_size) ==
    Len(TestChunk(current_chunk, para)) > chunk_size /\ current_chunk # <<>>

\* the record appended for the buffer current_chunk
ChunkRecord(current_chunk, chunks) ==
    [chunk_index |-> Len(chunks),
     content |-> Strip(current_chunk),
     char_count |-> Len(current_chunk)]

\* "current_chunk[-overlap:] if len(current_chunk) > overlap else current_chunk"
OverlapText(current_chunk, overlap) ==
    IF Len(current_chunk) > overlap
    THEN PySliceFrom(current_chunk, 0 - overlap)
    ELSE current_chunk

\* the buffer after a closed chunk
NextBuffer(current_chunk, para, overlap) ==
    OverlapText(current_chunk, overlap) \o <<NL, NL>> \o para

\* "if current_chunk.strip()": the final chunk
FinalChunks(current_chunk, chunks) ==
    IF Strip(current_chunk) # <<>>
    THEN Append(chunks, ChunkRecord(current_chunk, chunks))
    ELSE chunks

RECURSIVE ChunkLoop(_, _, _, _, _, _)
ChunkLoop(paragraphs, p, current_chunk, chunks, chunk_size, overlap) ==
    IF p > Len(paragraphs)
    THEN FinalChunks(current_chunk, chunks)
    ELSE LET para == paragraphs[p]
         IN IF MustClose(current_chunk, para, chunk_size)
            THEN ChunkLoop(paragraphs, p + 1,
                           NextBuffer(current_chunk, para, overlap),
                           Append(chunks, ChunkRecord(current_chunk, chunks)),
                           chunk_size, overlap)
            ELSE ChunkLoop(paragraphs, p + 1, TestChunk(current_chunk, para),
                           chunks, chunk_size, overlap)

\* the splitter applied to the text of a file that could be read
SplitText(content, chunk_size, overlap) ==
    ChunkLoop(SplitParagraphs(content), 1, <<>>, <<>>, chunk_size, overlap)

(***************************************************************************)
(* The embedding model and cosine similarity                               *)
(***************************************************************************)
Alphabet == <<"a", "b", "c", "d">>

\* SentenceTransformer.encode: a deterministic map from a text to a vector
\* of fixed dimension (here 2): every letter pulls in its own direction
Encode(text) ==
    <<Count(text, "a") - Count(text, "c") + Count(text, "d"),
      Count(text, "b") + Count(text, "d")>>

Dot(u, v) == u[1] * v[1] + u[2] * v[2]

\* sklearn cosine_similarity of two vectors.  The value cos is kept exactly
\* as the fraction n/d = sign(cos) * cos^2, which orders as cos does; a
\* vector of norm zero gives similarity 0
cosine_similarity(u, v) ==
    IF Dot(u, u) = 0 \/ Dot(v, v) = 0
    THEN [n |-> 0, d |-> 1]
    ELSE [n |-> (IF Dot(u, v) < 0 THEN 0 - Dot(u, v) * Dot(u, v) ELSE Dot(u, v) * Dot(u, v)),
          d |-> Dot(u, u) * Dot(v, v)]

ScoreLess(a, b) == a.n * b.d < b.n * a.d

ScoreEq(a, b) == a.n * b.d = b.n * a.d

(***************************************************************************)
(* app.py: search_vectors and the /search endpoint                         *)
(***************************************************************************)
DefaultTopK == 10

\* the global vector_database while no pickle is loaded (None)
NoDatabase == [loaded |-> FALSE, embeddings |-> <<>>, message_metadata |-> <<>>]

IndexOrders(n) == {f \in [1..n -> 1..n] : \A i, j \in 1..n : i # j => f[i] # f[j]}

\* np.argsort(similarities): some permutation that sorts ascending; the
\* order of equal similarities is left to the sort
Argsorts(similarities) ==
    {f \in IndexOrders(Len(similarities)) :
        \A i, j \in 1..Len(similarities) :
            i < j => ~ScoreLess(similarities[f[j]], similarities[f[i]])}

Similarities(query, database) ==
    [i \in 1..Len(database.embeddings) |->
        cosine_similarity(Encode(query), database.embeddings[i])]

IncludeResult_any(similarity) == TRUE

\* "if similarities[idx] > 0"
IncludeResult(similarity) == similarity.n > 0

RECURSIVE CollectResults(_, _, _, _)
CollectResults(top_indices, k, similarities, database) ==
    IF k > Len(top_indices) THEN <<>>
    ELSE LET idx == top_indices[k]
             rest == CollectResults(top_indices, k + 1, similarities, database)
         IN IF IncludeResult(similarities[idx])
            THEN <<[score |-> similarities[idx],
                    metadata |-> database.message_metadata[idx],
                    content |-> database.message_metadata[idx].original_message.content]>>
                 \o rest
            ELSE rest

\* np.argsort(similarities)[::-1][:top_k]
TopIndices(argsorted, top_k) == PySliceTo(Reverse(argsorted), top_k)

search_vectors(query, database, top_k, argsorted) ==
    IF Len(database.embeddings) = 0 THEN <<>>
    ELSE CollectResults(TopIndices(argsorted, top_k), 1,
                        Similarities(query, database), database)

\* the JSON values a client can send as top_k
TopKRaws ==
    {[kind |-> k, val |-> 0] : k \in {"absent", "null", "text"}}
    \cup {[kind |-> "int", val |-> v] : v \in (0 - MaxTopK)..MaxTopK}

\* top_k_raw -> top_k of the endpoints
ParseTopK(top_k_raw) ==
    IF top_k_raw.kind = "int" THEN top_k_raw.val ELSE DefaultTopK

\* "filters = data.get('filters', {})" when the request has none
NoFilters == [year |-> <<>>, channel |-> <<>>, source_type |-> "", other |-> FALSE]

\* "r.get('metadata', {})": a formatted result has no key metadata
ResultMetadata(r) ==
    IF "metadata" \in DOMAIN r THEN r.metadata
    ELSE [keys |-> {}, timestamp |-> <<>>, discord_info |-> <<>>]

\* _get_year_from_result: <<year>>, or <<>> for None
ResultYear(r) == ResultMetadata(r).timestamp

\* _get_channel_from_result: <<str(channel_id)>>, or <<>> for None
ResultChannel(r) ==
    IF "discord_info" \in ResultMetadata(r).keys
    THEN ResultMetadata(r).discord_info ELSE <<>>

\* filter_results; a facet value is <<>> (absent or empty) or <<value>>, the
\* year <<0>> stands for a text that int() rejects
filter_results(results, filters) ==
    LET YearOk(r) == ResultYear(r) = filters.year
        ChannelOk(r) == ResultChannel(r) = filters.channel
        KindOk(r) ==
            IF filters.source_type = "discord"
            THEN "discord_info" \in ResultMetadata(r).keys
            ELSE IF filters.source_type = "markdown"
            THEN "file_path" \in ResultMetadata(r).keys
            ELSE TRUE
        by_year == IF filters.year # <<>> THEN SelectSeq(results, YearOk) ELSE results
        by_channel == IF filters.channel # <<>> THEN SelectSeq(by_year, ChannelOk)
                      ELSE by_year
    IN SelectSeq(by_channel, KindOk)

\* "if filters:" and the call; int(filters['year']) raising is raised |-> TRUE
ApplyFilters(results, filters) ==
    IF filters = NoFilters THEN [raised |-> FALSE, results |-> results]
    ELSE IF filters.year = <<0>> THEN [raised |-> TRUE, results |-> <<>>]
    ELSE [raised |-> FALSE, results |-> filter_results(results, filters)]

\* formatted_result of the endpoints: no key metadata
Formatted(endpoint, result) ==
    [score |-> result.score,
     content |-> result.content,
     timestamp |-> result.metadata.timestamp,
     source_file |-> result.metadata.source_file,
     channel_id |-> result.metadata.discord_info,
     file_path |-> result.metadata.file_path,
     chunk_id |-> result.metadata.chunk_id,
     source_type |-> IF endpoint # "search" THEN ""
                     ELSE IF "discord_info" \in result.metadata.keys THEN "discord"
                     ELSE "markdown"]

FormatAll(endpoint, results) ==
    [i \in 1..Len(results) |-> Formatted(endpoint, results[i])]

(***************************************************************************)
(* create_vectors.py: messages and the index built from them               *)
(***************************************************************************)
\* a message of a transcript file <j>_messages.json, as chunk.py writes it
TranscriptMessage(j, line_number, content) ==
    [keys |-> {"line_number"}, content |-> content,
     line_number |-> line_number, source_file |-> <<j, ".txt">>,
     file_path |-> <<>>, chunk_id |-> <<>>, chunk_index |-> 0,
     timestamp |-> <<>>, discord_info |-> <<>>]

\* a line "[timestamp] username: content" of an export that has a metadata
\* file: timestamp is <<year>> for the date string, discord_info is
\* <<channel_id>>
DiscordMessage(j, line_number, content, year, channel_id) ==
    [TranscriptMessage(j, line_number, content)
        EXCEPT !.keys = @ \cup {"discord_info"},
               !.timestamp = <<year>>,
               !.discord_info = <<channel_id>>]

\* metadata_entry of create_vectors; keys holds the optional keys present
MetadataEntry(msg) ==
    [keys |-> msg.keys \cap {"discord_info", "file_path", "chunk_id", "chunk_index"},
     line_number |-> msg.line_number, source_file |-> msg.source_file,
     file_path |-> msg.file_path, chunk_id |-> msg.chunk_id,
     chunk_index |-> msg.chunk_index, timestamp |-> msg.timestamp,
     discord_info |-> msg.discord_info, original_message |-> msg]

\* "if content:" keeps the messages with a non-empty content
RECURSIVE KeepWithContent(_)
KeepWithContent(messages) ==
    IF messages = <<>> THEN <<>>
    ELSE IF Head(messages).content # <<>>
         THEN <<Head(messages)>> \o KeepWithContent(Tail(messages))
         ELSE KeepWithContent(Tail(messages))

MessageContents_all(messages) == [i \in 1..Len(messages) |-> messages[i].content]

\* the list message_contents: "message_contents.append(content)" under
\* "if content:"
MessageContents(messages) ==
    LET kept == KeepWithContent(messages)
    IN [i \in 1..Len(kept) |-> kept[i].content]

\* the list message_metadata, appended to under the same "if content:"
MessageMetadata(messages) ==
    LET kept == KeepWithContent(messages)
    IN [i \in 1..Len(kept) |-> MetadataEntry(kept[i])]

\* the vector_database that create_vectors pickles: one model.encode per
\* entry of message_contents
create_vectors(messages) ==
    LET message_contents == MessageContents(messages)
    IN [loaded |-> TRUE,
        embeddings |-> [i \in 1..Len(message_contents) |-> Encode(message_contents[i])],
        message_metadata |-> MessageMetadata(messages)]

(***************************************************************************)
(* Files and digests                                                       *)
(***************************************************************************)
\* hashlib.md5(...).hexdigest() of a file content, kept as the length and
\* the letter counts of the content: equal contents give equal digests and
\* the contents of this model all differ in it
Md5(bytes) ==
    <<Len(bytes), Count(bytes, "a"), Count(bytes, "b"), Count(bytes, "c"), Count(bytes, "d")>>

\* the value None of get_file_hash
NoHash == [ok |-> FALSE, hex |-> <<>>]

ParagraphLen == 300

\* the text of a markdown source in content version v: version 0 is the
\* empty file, version 1 has two paragraphs, the others have one
MdText(v) ==
    LET para == Repeat(Alphabet[(v % Len(Alphabet)) + 1], ParagraphLen)
    IN IF v = 0 THEN <<>>
       ELSE IF v = 1 THEN para \o <<NL, NL>> \o para
       ELSE para

\* the sub-directories of the markdown input directory
MdDirs == {1, 2}

\* the content versions a markdown source takes
MdVersions == {0, 1, 2}

MdPaths == MdDirs \X (1..NStems)

MdModes == {"ok", "unreadable", "undecodable"}

NoFile == [exists |-> FALSE, ver |-> 0, mode |-> "ok"]

\* the splitter results and the digests of the versions, computed once
MdChunksOfVersion ==
    [v \in MdVersions |-> SplitText(MdText(v), DefaultChunkSize, DefaultOverlap)]

MdDigestOfVersion == [v \in MdVersions |-> Md5(MdText(v))]

\* chunk.py get_file_hash: None when the file cannot be opened
get_file_hash(file) ==
    IF ~file.exists \/ file.mode = "unreadable" THEN NoHash
    ELSE [ok |-> TRUE, hex |-> MdDigestOfVersion[file.ver]]

\* chunk.py chunk_markdown_file with its default parameters: [] when the
\* file cannot be read as UTF-8 text
chunk_markdown_file(file) ==
    IF ~file.exists \/ file.mode # "ok" THEN <<>>
    ELSE MdChunksOfVersion[file.ver]

\* f"{file_stem}_chunk_{chunk['chunk_index']}"
ChunkId(file_stem, chunk_index) == <<file_stem, "_chunk_", chunk_index>>

\* the chunk files the sources can give
ChunkIds ==
    UNION {{ChunkId(s, MdChunksOfVersion[v][c].chunk_index) :
                c \in 1..Len(MdChunksOfVersion[v])} :
           s \in 1..NStems, v \in MdVersions}

\* dict helpers
Put(dict, key, value) ==
    [k \in DOMAIN dict \cup {key} |-> IF k = key THEN value ELSE dict[k]]

EmptyDict == [k \in {} |-> 0]

\* a set of tuples as the sequence ordered by components a, then b: the
\* order in which os.walk and os.listdir hand out the files of this model
RECURSIVE Listing(_, _, _)
Listing(S, a, b) ==
    IF S = {} THEN <<>>
    ELSE LET x == CHOOSE y \in S : \A z \in S :
                      y[a] < z[a] \/ (y[a] = z[a] /\ y[b] <= z[b])
         IN <<x>> \o Listing(S \ {x}, a, b)

(***************************************************************************)
(* chunk.py: process_markdown_files                                        *)
(***************************************************************************)
MdUnchanged_keyonly(cache, file_key, current_hash) == file_key \in DOMAIN cache

\* "if file_key in cache and cache[file_key] == current_hash"
MdUnchanged(cache, file_key, current_hash) ==
    file_key \in DOMAIN cache /\ cache[file_key] = current_hash.hex

\* chunk_data of one chunk of the source md_file
ChunkData(md_file, chunk) ==
    [chunk_id |-> ChunkId(md_file[2], chunk.chunk_index),
     chunk_index |-> chunk.chunk_index,
     content |-> chunk.content,
     metadata |-> [file_name |-> <<md_file[2], ".md">>,
                   file_path |-> md_file,
                   char_count |-> chunk.char_count,
                   source_type |-> "markdown"]]

\* the loop "for chunk in chunks": a failed write leaves the file as it was
RECURSIVE SaveChunks(_, _, _, _, _)
SaveChunks(store, md_file, chunks, c, locked) ==
    IF c > Len(chunks) THEN store
    ELSE LET data == ChunkData(md_file, chunks[c])
         IN SaveChunks(IF data.chunk_id \in locked THEN store
                       ELSE Put(store, data.chunk_id, data),
                       md_file, chunks, c + 1, locked)

\* "cache[file_key] = current_hash"
CommitEntry(cache, file_key, current_hash) == Put(cache, file_key, current_hash.hex)

SkipSource_forget(st, md_file) ==
    [st EXCEPT !.skipped = @ \cup {md_file},
               !.cache = [k \in DOMAIN @ \ {md_file} |-> @[k]]]

\* the branch "Skipping ... (no changes)": the source is counted as skipped
\* and its cache entry stays
SkipSource(st, md_file) == [st EXCEPT !.skipped = @ \cup {md_file}]

\* the loop "for md_file in markdown_files"; st carries cache, the chunk
\* directory and what the run reports
RECURSIVE MdLoop(_, _, _, _, _)
MdLoop(st, markdown_files, m, files, locked) ==
    IF m > Len(markdown_files) THEN st
    ELSE LET md_file == markdown_files[m]
             current_hash == get_file_hash(files[md_file])
             chunks == chunk_markdown_file(files[md_file])
             next ==
               IF ~current_hash.ok THEN st
               ELSE IF MdUnchanged(st.cache, md_file, current_hash)
               THEN SkipSource(st, md_file)
               ELSE IF chunks = <<>>
               THEN [st EXCEPT !.attempted = @ \cup {md_file}]
               ELSE [st EXCEPT !.attempted = @ \cup {md_file},
                               !.processed = @ \cup {md_file},
                               !.store = SaveChunks(@, md_file, chunks, 1, locked),
                               !.cache = CommitEntry(@, md_file, current_hash)]
         IN MdLoop(next, markdown_files, m + 1, files, locked)

(***************************************************************************)
(* create_vectors.py: load_chunked_files and load_markdown_chunks          *)
(***************************************************************************)
JsonNames == 1..NJson

\* the content versions a transcript JSON file takes
JsonVersions == {1, 2}

JsonModes == {"ok", "unreadable", "malformed"}

\* the messages of transcript file j in content version v; the message of
\* line 2 has an empty content
JsonData(j, v) ==
    [i \in 1..v |->
        TranscriptMessage(j, i, IF i = 2 THEN <<>>
                                ELSE <<Alphabet[((j + v) % Len(Alphabet)) + 1]>>)]

\* the bytes of the file, as far as the digest looks at them
RECURSIVE JsonBytes(_)
JsonBytes(data) ==
    IF data = <<>> THEN <<>>
    ELSE Head(data).content \o <<NL>> \o JsonBytes(Tail(data))

\* create_vectors.py get_file_hash
get_json_hash(j, file) ==
    IF ~file.exists \/ file.mode = "unreadable" THEN NoHash
    ELSE [ok |-> TRUE, hex |-> Md5(JsonBytes(JsonData(j, file.ver)))]

\* "if json_file in file_cache and file_cache[json_file] == current_hash"
JsonUnchanged(file_cache, json_file, current_hash) ==
    json_file \in DOMAIN file_cache /\ file_cache[json_file] = current_hash.hex

\* the first loop of load_chunked_files: the files to process
FilesToProcess(json_files, files, file_cache) ==
    {j \in json_files :
        \/ ~get_json_hash(j, files[j]).ok
        \/ ~JsonUnchanged(file_cache, j, get_json_hash(j, files[j]))}

\* an item of a transcript file that is a JSON string, not an object: the
\* loader takes it as it does a message
StringItem(j) == [TranscriptMessage(j, 0, <<"a">>) EXCEPT !.keys = {"str"}]

\* the loop "for json_file in files_to_process": a file that cannot be
\* opened or parsed adds nothing; the file of mode "misshaped" parses and
\* holds a list of strings
RECURSIVE LoadMessages(_, _, _)
LoadMessages(json_files, files_to_process, files) ==
    IF json_files = <<>> THEN <<>>
    ELSE LET j == Head(json_files)
             rest == LoadMessages(Tail(json_files), files_to_process, files)
         IN IF j \in files_to_process /\ files[j].mode = "ok"
            THEN JsonData(j, files[j].ver) \o rest
            ELSE IF j \in files_to_process /\ files[j].mode = "misshaped"
            THEN <<StringItem(j)>> \o rest
            ELSE rest

\* the loop "for json_file in json_files" that updates the cache
RECURSIVE UpdateFileCache(_, _, _)
UpdateFileCache(file_cache, json_files, files) ==
    IF json_files = <<>> THEN file_cache
    ELSE LET j == Head(json_files)
             current_hash == get_json_hash(j, files[j])
         IN UpdateFileCache(IF current_hash.ok THEN Put(file_cache, j, current_hash.hex)
                            ELSE file_cache,
                            Tail(json_files), files)

JsonListing(files) ==
    LET present == {j \in JsonNames : files[j].exists}
    IN [i \in 1..Cardinality(present) |->
           CHOOSE j \in present : Cardinality({k \in present : k < j}) = i - 1]

\* load_chunked_files: the messages it returns, the cache it wants to save
\* and its two lists
load_chunked_files(files, cache_on_disk) ==
    LET json_files == JsonListing(files)
        listed == {json_files[i] : i \in 1..Len(json_files)}
        files_to_process == FilesToProcess(listed, files, cache_on_disk)
    IN [all_messages |-> LoadMessages(json_files, files_to_process, files),
        file_cache |-> IF json_files = <<>> THEN cache_on_disk
                       ELSE UpdateFileCache(cache_on_disk, json_files, files),
        loaded |-> cache_on_disk,
        files_to_skip |-> listed \ files_to_process,
        files_to_process |-> files_to_process]

\* the message load_markdown_chunks makes of one chunk file
MarkdownMessage(data) ==
    [keys |-> {"file_path", "chunk_id", "chunk_index"}, content |-> data.content,
     line_number |-> 0, source_file |-> data.metadata.file_name,
     file_path |-> data.metadata.file_path, chunk_id |-> data.chunk_id,
     chunk_index |-> data.chunk_index, timestamp |-> <<>>, discord_info |-> <<>>]

\* load_markdown_chunks: one message per chunk file of the directory
load_markdown_chunks(store) ==
    LET names == Listing(DOMAIN store, 1, 3)
    IN [i \in 1..Len(names) |-> MarkdownMessage(store[names[i]])]

(***************************************************************************)
(* State                                                                   *)
(***************************************************************************)
VARIABLES
    vector_database,   \* app.py: the global holding the loaded pickle
    request,           \* the last request an endpoint received
    response,          \* its response; argsorted is np.argsort of that call
    exports,           \* discord_exports/KSU Motorsports: name -> lines, <<>> if none
    md_files,          \* the markdown input directory: path -> file
    chunk_cache,       \* chunk_cache.json: file_key -> digest
    chunk_store,       \* chunked_markdown: chunk file name -> chunk_data
    unwritable,        \* chunk files that cannot be opened for writing
    readonly_caches,   \* cache files that cannot be opened for writing
    json_files,        \* discord_jsons: name -> file
    file_cache,        \* file_cache.json: json_file -> digest
    vectors_pkl,       \* vectors.pkl, NoDatabase while there is none
    md_run,            \* what the last process_markdown_files did
    vec_run,           \* what the last load_chunked_files did
    changed,           \* markdown sources changed since the last markdown run
    last_op,           \* the kind of the last step
    env_steps,         \* file system changes so far
    runs               \* pipeline runs so far

\* one call of chunk_markdown_file, followed through its loop
VARIABLES
    split_content,        \* the text read from file_path
    split_chunk_size,     \* the argument chunk_size
    split_overlap,        \* the argument overlap
    split_paragraphs,     \* paragraphs
    split_next,           \* index of the paragraph the loop takes next
    split_current_chunk,  \* current_chunk
    split_chunks,         \* chunks
    split_pc,             \* "call", "loop", "final", "returned", "saved"
    split_saved,          \* the chunk files written for the returned chunks
    split_buffers         \* history: the buffer each chunk record was made of

\* outputs and frames of the other operations
VARIABLES
    discord_jsons,        \* what chunk_lines_to_json wrote: name -> messages
    md_call,              \* a process_markdown_files run followed to its cache write
    ocr_call,             \* the OCR of one PDF in process_single_pdf, format "txt"
    search_call           \* the frame of a /search request that is being served

searchVars == <<vector_database, request, response, exports>>

callVars == <<discord_jsons, md_call, ocr_call, search_call>>

splitVars == <<split_content, split_chunk_size, split_overlap, split_paragraphs,
               split_next, split_current_chunk, split_chunks, split_pc, split_saved,
               split_buffers>>

ingestVars == <<md_files, chunk_cache, chunk_store, unwritable, readonly_caches,
                json_files, file_cache, vectors_pkl, md_run, vec_run, changed,
                last_op, env_steps, runs>>

vars == <<vector_database, request, response, exports,
          md_files, chunk_cache, chunk_store, unwritable, readonly_caches,
          json_files, file_cache, vectors_pkl, md_run, vec_run, changed,
          last_op, env_steps, runs,
          split_content, split_chunk_size, split_overlap, split_paragraphs,
          split_next, split_current_chunk, split_chunks, split_pc, split_saved,
               split_buffers, discord_jsons, md_call, ocr_call, search_call>>

NoRequest ==
    [endpoint |-> "none", query |-> <<>>, top_k_raw |-> [kind |-> "absent", val |-> 0],
     filters |-> NoFilters]

NoResponse == [status |-> 0, results |-> <<>>, argsorted |-> <<>>, ranked |-> <<>>]

NoMdRun == [ran |-> FALSE, rerun |-> FALSE, loaded |-> EmptyDict,
            skipped |-> {}, attempted |-> {}, processed |-> {}]

NoVecRun == [ran |-> FALSE, loaded |-> EmptyDict,
             files_to_skip |-> {}, files_to_process |-> {}]

\* nothing served yet
InitService ==
    /\ request = NoRequest
    /\ response = NoResponse
    /\ exports = <<>>

\* empty input directories, no cache, no chunk, no index
InitFiles ==
    /\ md_files = [p \in MdPaths |-> NoFile]
    /\ chunk_cache = EmptyDict
    /\ chunk_store = EmptyDict
    /\ unwritable = {}
    /\ readonly_caches = {}
    /\ json_files = [j \in JsonNames |-> NoFile]
    /\ file_cache = EmptyDict
    /\ vectors_pkl = NoDatabase
    /\ md_run = NoMdRun
    /\ vec_run = NoVecRun
    /\ changed = {}
    /\ last_op = "none"
    /\ env_steps = 0
    /\ runs = 0

\* no call of the splitter under way
NoSplit ==
    /\ split_content = <<>>
    /\ split_chunk_size = DefaultChunkSize
    /\ split_overlap = DefaultOverlap
    /\ split_paragraphs = <<>>
    /\ split_next = 1
    /\ split_current_chunk = <<>>
    /\ split_chunks = <<>>
    /\ split_pc = "idle"
    /\ split_saved = EmptyDict
    /\ split_buffers = <<>>

\* nothing written by the transcript chunker
NoCalls ==
    /\ discord_jsons = EmptyDict
    /\ md_call = [pc |-> "idle", cache |-> EmptyDict, before |-> EmptyDict, torn |-> FALSE]
    /\ ocr_call = [pc |-> "idle", page_count |-> 0, workers |-> 1, done |-> {},
                   yielded |-> <<>>, collected |-> <<>>, texts |-> <<>>,
                   writes |-> <<>>, out |-> <<>>]
    /\ search_call = [pc |-> "idle", vector_database |-> NoDatabase,
                      similarities |-> <<>>, argsorted |-> <<>>, served |-> {}]

(***************************************************************************)
(* The query service                                                       *)
(***************************************************************************)
SearchTexts == {<<Alphabet[i]>> : i \in 1..Len(Alphabet)}

SeqsUpTo(S, n) == UNION {[1..k -> S] : k \in 0..n}

SearchMessages == {TranscriptMessage(1, 1, t) : t \in SearchTexts}

\* the message lists create_vectors is given: the messages of the lines
\* 1..k of one transcript, a line with an empty content among them
SearchInputs ==
    {[i \in 1..Len(t) |-> TranscriptMessage(1, i, t[i])] :
        t \in SeqsUpTo(SearchTexts \cup {<<>>}, MaxRecords)}

InitSearch ==
    /\ vector_database \in {NoDatabase} \cup {create_vectors(m) : m \in SearchInputs}
    /\ InitService
    /\ InitFiles
    /\ NoSplit
    /\ NoCalls

\* the response of an error, and of a success: ranked is what search_vectors
\* returned, results is the JSON list
ErrorResponse(status) ==
    [status |-> status, results |-> <<>>, argsorted |-> <<>>, ranked |-> <<>>]

\* POST /search, from the request to its response; a behaviour follows one
\* request
search(query, top_k_raw, filters, argsorted) ==
    /\ request = NoRequest
    /\ request' = [endpoint |-> "search", query |-> query, top_k_raw |-> top_k_raw,
                   filters |-> filters]
    /\ response' =
         IF ~vector_database.loaded THEN ErrorResponse(500)
         ELSE IF query = <<>> THEN ErrorResponse(400)
         ELSE LET ranked == search_vectors(query, vector_database,
                                           ParseTopK(top_k_raw), argsorted)
                  filtered == ApplyFilters(ranked, filters)
              IN IF filtered.raised THEN ErrorResponse(500)
                 ELSE [status |-> 200,
                       results |-> FormatAll("search", filtered.results),
                       argsorted |-> argsorted,
                       ranked |-> ranked]
    /\ UNCHANGED <<vector_database, exports>>
    /\ UNCHANGED ingestVars
    /\ UNCHANGED splitVars
    /\ UNCHANGED callVars

SearchRequest ==
    /\ request = NoRequest
    /\ \E query \in SearchTexts \cup {<<>>} :
        \E argsorted \in (IF vector_database.loaded /\ query # <<>>
                          THEN Argsorts(Similarities(query, vector_database))
                          ELSE {<<>>}) :
            \E top_k_raw \in TopKRaws :
                search(query, top_k_raw, NoFilters, argsorted)

NextSearch == SearchRequest

\* search_discord and search_markdown: the ranked results that hold the key
\* of the endpoint are formatted first and filtered after
KindSearch(endpoint, key, query, top_k_raw, filters, argsorted) ==
    /\ request = NoRequest
    /\ request' = [endpoint |-> endpoint, query |-> query, top_k_raw |-> top_k_raw,
                   filters |-> filters]
    /\ response' =
         IF ~vector_database.loaded THEN ErrorResponse(500)
         ELSE IF query = <<>> THEN ErrorResponse(400)
         ELSE LET ranked == search_vectors(query, vector_database,
                                           ParseTopK(top_k_raw), argsorted)
                  HasKey(r) == key \in r.metadata.keys
                  filtered == ApplyFilters(FormatAll(endpoint, SelectSeq(ranked, HasKey)),
                                           filters)
              IN IF filtered.raised THEN ErrorResponse(500)
                 ELSE [status |-> 200,
                       results |-> filtered.results,
                       argsorted |-> argsorted,
                       ranked |-> ranked]
    /\ UNCHANGED <<vector_database, exports>>
    /\ UNCHANGED ingestVars
    /\ UNCHANGED splitVars
    /\ UNCHANGED callVars

\* POST /search_discord
search_discord(query, top_k_raw, filters, argsorted) ==
    KindSearch("search_discord", "discord_info", query, top_k_raw, filters, argsorted)

\* POST /search_markdown
search_markdown(query, top_k_raw, filters, argsorted) ==
    KindSearch("search_markdown", "file_path", query, top_k_raw, filters, argsorted)

\* records of the database the faceted requests go to
MaxFacetRecords == 2

\* two export lines with a date and Discord ids, one without, one chunk
FacetMessages ==
    {DiscordMessage(1, 1, <<"d">>, 2023, 1),
     DiscordMessage(1, 2, <<"a">>, 2024, 2),
     TranscriptMessage(1, 3, <<"b">>),
     MarkdownMessage(ChunkData(<<1, 1>>, [chunk_index |-> 0, content |-> <<"d">>,
                                          char_count |-> 1]))}

\* the filters a client sends; the kind "pdf" is none the index knows
FacetFilters ==
    [year : {<<>>, <<2023>>, <<0>>}, channel : {<<>>, <<1>>},
     source_type : {"", "discord", "markdown", "pdf"}, other : BOOLEAN]

InitFacet ==
    /\ vector_database \in
           {create_vectors(m) : m \in SeqsUpTo(FacetMessages, MaxFacetRecords)}
    /\ InitService
    /\ InitFiles
    /\ NoSplit
    /\ NoCalls

\* the query of the faceted requests, with every order argsort can give
FacetArgsorts == Argsorts(Similarities(<<"d">>, vector_database))

NextFacet ==
    \/ \E filters \in FacetFilters, argsorted \in FacetArgsorts :
          search(<<"d">>, [kind |-> "absent", val |-> 0], filters, argsorted)
    \/ \E filters \in FacetFilters, argsorted \in FacetArgsorts :
          search_discord(<<"d">>, [kind |-> "absent", val |-> 0], filters, argsorted)
    \/ \E filters \in FacetFilters, argsorted \in FacetArgsorts :
          search_markdown(<<"d">>, [kind |-> "absent", val |-> 0], filters, argsorted)

SpecFacet == InitFacet /\ [][NextFacet]_vars

(***************************************************************************)
(* app.py: POST /context                                                   *)
(***************************************************************************)
\* lines of the export file
MaxFileLines == 4
\* largest context_lines a client sends (the smallest is -MaxWindow)
MaxWindow == 2

DefaultContextLines == 5

\* the fallbacks of line_number_raw and context_lines_raw
ParseIntOr(raw, default) == IF raw.kind = "int" THEN raw.val ELSE default

\* str.rstrip()
RStrip(s) ==
    LET keep == {i \in 1..Len(s) : s[i] \notin Whitespace}
    IN IF keep = {} THEN <<>> ELSE SubSeq(s, 1, Max(keep))

\* f.readlines() of an export of n lines
ExportLines(n) == [i \in 1..n |-> <<Alphabet[(i % Len(Alphabet)) + 1], " ", NL>>]

ContextWindow_open(lines, line_number, context_lines) ==
    [k \in 1..(Min({Len(lines), line_number + context_lines})
               - Max({0, line_number - context_lines})) |->
        LET line_num == Max({0, line_number - context_lines}) + k
        IN [line_number |-> line_num,
            content |-> RStrip(lines[line_num]),
            is_target |-> line_num = line_number]]

\* lines 373-385: start_line, end_line and "for i in range(start_line, end_line)"
ContextWindow(lines, line_number, context_lines) ==
    LET start_line == Max({0, line_number - context_lines - 1})
        end_line == Min({Len(lines), line_number + context_lines})
    IN [k \in 1..(end_line - start_line) |->
           LET line_num == start_line + k
           IN [line_number |-> line_num,
               content |-> RStrip(lines[line_num]),
               is_target |-> line_num = line_number]]

\* what the endpoint answers: context is the list of line records, content
\* the body of a markdown chunk
ContextResponse(status, context, content) ==
    [status |-> status, context |-> context, content |-> content]

InvalidLocator_negative(source_file, line_number) ==
    source_file = <<>> \/ line_number < 0

\* "if not source_file or line_number <= 0"
InvalidLocator(source_file, line_number) ==
    source_file = <<>> \/ line_number <= 0

\* POST /context, from the request to its response
get_context(chunk_id, source_file, line_number_raw, context_lines_raw) ==
    /\ request = NoRequest
    /\ request' = [endpoint |-> "context", chunk_id |-> chunk_id,
                   source_file |-> source_file, line_number_raw |-> line_number_raw,
                   context_lines_raw |-> context_lines_raw]
    /\ response' =
         LET context_lines == ParseIntOr(context_lines_raw, DefaultContextLines)
             line_number == ParseIntOr(line_number_raw, 0)
             metadata == vector_database.message_metadata
             found == {idx \in 1..Len(metadata) :
                          "chunk_id" \in metadata[idx].keys
                          /\ metadata[idx].chunk_id = chunk_id}
         IN IF ~vector_database.loaded THEN ContextResponse(500, <<>>, <<>>)
            ELSE IF chunk_id # <<>>
            THEN IF found # {}
                 THEN ContextResponse(200, <<>>,
                                      metadata[Min(found)].original_message.content)
                 ELSE ContextResponse(404, <<>>, <<>>)
            ELSE IF InvalidLocator(source_file, line_number)
            THEN ContextResponse(400, <<>>, <<>>)
            ELSE IF source_file \notin DOMAIN exports
            THEN ContextResponse(404, <<>>, <<>>)
            ELSE ContextResponse(200,
                     ContextWindow(exports[source_file], line_number, context_lines),
                     <<>>)
    /\ UNCHANGED <<vector_database, exports>>
    /\ UNCHANGED ingestVars
    /\ UNCHANGED splitVars
    /\ UNCHANGED callVars

\* the JSON values of line_number and context_lines
ContextRaws(lo, hi) ==
    {[kind |-> k, val |-> 0] : k \in {"absent", "null", "text"}}
    \cup {[kind |-> "int", val |-> v] : v \in lo..hi}

\* an index with a markdown chunk and a transcript line, or none; the export
\* 1.txt with 0 to MaxFileLines lines, no export 2.txt
InitContext ==
    /\ vector_database \in
           {NoDatabase,
            create_vectors(<<MarkdownMessage(ChunkData(<<1, 1>>,
                                [chunk_index |-> 0, content |-> <<"d">>, char_count |-> 1])),
                             TranscriptMessage(1, 1, <<"a">>)>>)}
    /\ request = NoRequest
    /\ response = NoResponse
    /\ exports \in {(<<1, ".txt">> :> ExportLines(n)) : n \in 0..MaxFileLines}
    /\ InitFiles
    /\ NoSplit
    /\ NoCalls

NextContext ==
    \E chunk_id \in {<<>>, ChunkId(1, 0), ChunkId(2, 0)},
       source_file \in {<<>>, <<1, ".txt">>, <<2, ".txt">>},
       line_number_raw \in ContextRaws(0 - 1, MaxFileLines + 1),
       context_lines_raw \in ContextRaws(0 - MaxWindow, MaxWindow) :
        get_context(chunk_id, source_file, line_number_raw, context_lines_raw)

SpecContext == InitContext /\ [][NextContext]_vars

SpecSearch == InitSearch /\ [][NextSearch]_vars

(***************************************************************************)
(* The ingestion pipeline and the file system around it                    *)
(***************************************************************************)
EnvStep ==
    /\ env_steps < MaxEnv
    /\ env_steps' = env_steps + 1
    /\ last_op' = "env"
    /\ UNCHANGED <<chunk_cache, chunk_store, file_cache, vectors_pkl,
                   md_run, vec_run, runs>>
    /\ UNCHANGED searchVars
    /\ UNCHANGED splitVars
    /\ UNCHANGED callVars

\* a markdown source is created or gets a new content
WriteSource(p, v) ==
    /\ EnvStep
    /\ md_files[p] # [exists |-> TRUE, ver |-> v, mode |-> "ok"]
    /\ md_files' = [md_files EXCEPT ![p] = [exists |-> TRUE, ver |-> v, mode |-> "ok"]]
    /\ changed' = changed \cup {p}
    /\ UNCHANGED <<unwritable, readonly_caches, json_files>>

\* a markdown source loses its read permission or its UTF-8 validity
SetSourceMode(p, mode) ==
    /\ EnvStep
    /\ md_files[p].exists
    /\ md_files[p].mode # mode
    /\ md_files' = [md_files EXCEPT ![p].mode = mode]
    /\ changed' = changed \cup {p}
    /\ UNCHANGED <<unwritable, readonly_caches, json_files>>

\* a chunk file becomes unwritable, or writable again
ToggleChunkFile(id) ==
    /\ EnvStep
    /\ unwritable' = IF id \in unwritable THEN unwritable \ {id} ELSE unwritable \cup {id}
    /\ UNCHANGED <<md_files, changed, readonly_caches, json_files>>

\* a cache file becomes unwritable, or writable again
ToggleCacheFile(name) ==
    /\ EnvStep
    /\ readonly_caches' = IF name \in readonly_caches THEN readonly_caches \ {name}
                          ELSE readonly_caches \cup {name}
    /\ UNCHANGED <<md_files, changed, unwritable, json_files>>

\* a transcript JSON file is created or gets a new content
WriteJson(j, v) ==
    /\ EnvStep
    /\ json_files[j] # [exists |-> TRUE, ver |-> v, mode |-> "ok"]
    /\ json_files' = [json_files EXCEPT ![j] = [exists |-> TRUE, ver |-> v, mode |-> "ok"]]
    /\ UNCHANGED <<md_files, changed, unwritable, readonly_caches>>

\* a transcript JSON file loses its read permission or its JSON validity
SetJsonMode(j, mode) ==
    /\ EnvStep
    /\ json_files[j].exists
    /\ json_files[j].mode # mode
    /\ json_files' = [json_files EXCEPT ![j].mode = mode]
    /\ UNCHANGED <<md_files, changed, unwritable, readonly_caches>>

\* chunk.py markdown <input_dir>: one run of process_markdown_files
process_markdown_files ==
    /\ runs < MaxRuns
    /\ runs' = runs + 1
    /\ last_op' = "markdown"
    /\ LET markdown_files == Listing({p \in MdPaths : md_files[p].exists}, 1, 2)
           done == MdLoop([cache |-> chunk_cache, store |-> chunk_store,
                           skipped |-> {}, attempted |-> {}, processed |-> {}],
                          markdown_files, 1, md_files, unwritable)
       IN /\ chunk_store' = done.store
          /\ chunk_cache' = IF markdown_files = <<>> \/ "chunk_cache.json" \in readonly_caches
                            THEN chunk_cache ELSE done.cache
          /\ md_run' = [ran |-> TRUE, rerun |-> last_op = "markdown",
                        loaded |-> chunk_cache, skipped |-> done.skipped,
                        attempted |-> done.attempted, processed |-> done.processed]
    /\ changed' = {}
    /\ UNCHANGED <<md_files, unwritable, readonly_caches, json_files, file_cache,
                   vectors_pkl, vec_run, env_steps>>
    /\ UNCHANGED searchVars
    /\ UNCHANGED splitVars
    /\ UNCHANGED callVars

\* create_vectors.py: one run of main
main ==
    /\ runs < MaxRuns
    /\ runs' = runs + 1
    /\ last_op' = "vectors"
    /\ LET discord == load_chunked_files(json_files, file_cache)
           all_messages == discord.all_messages \o load_markdown_chunks(chunk_store)
       IN /\ file_cache' = IF "file_cache.json" \in readonly_caches
                           THEN file_cache ELSE discord.file_cache
          /\ vec_run' = [ran |-> TRUE, loaded |-> file_cache,
                         files_to_skip |-> discord.files_to_skip,
                         files_to_process |-> discord.files_to_process]
          /\ vectors_pkl' =
               IF all_messages = <<>> THEN vectors_pkl
               ELSE IF \E i \in 1..Len(all_messages) : "str" \in all_messages[i].keys
               THEN vectors_pkl      \* msg.get raises in create_vectors, main ends
               ELSE create_vectors(all_messages)
    /\ UNCHANGED <<md_files, chunk_cache, chunk_store, unwritable, readonly_caches,
                   json_files, md_run, changed, env_steps>>
    /\ UNCHANGED searchVars
    /\ UNCHANGED splitVars
    /\ UNCHANGED callVars

InitIngest ==
    /\ vector_database = NoDatabase
    /\ InitService
    /\ InitFiles
    /\ NoSplit
    /\ NoCalls

NextIngest ==
    \/ \E p \in MdPaths, v \in MdVersions : WriteSource(p, v)
    \/ \E p \in MdPaths, mode \in MdModes : SetSourceMode(p, mode)
    \/ \E id \in ChunkIds : ToggleChunkFile(id)
    \/ \E name \in {"chunk_cache.json", "file_cache.json"} : ToggleCacheFile(name)
    \/ \E j \in JsonNames, v \in JsonVersions : WriteJson(j, v)
    \/ \E j \in JsonNames, mode \in JsonModes : SetJsonMode(j, mode)
    \/ process_markdown_files
    \/ main

SpecIngest == InitIngest /\ [][NextIngest]_vars

(***************************************************************************)
(* chunk_markdown_file, one paragraph at a time                            *)
(***************************************************************************)
\* largest chunk_size and overlap of the small calls
MaxChunkSize == 3
\* paragraphs of a text of the small calls
MaxParas == 3

\* the paragraphs the small texts are joined from
ParagraphSamples ==
    {<<>>, <<" ">>, <<"a">>, <<NL, "c">>, <<"d", "d", "d">>}

RECURSIVE Join(_)
Join(paras) ==
    IF Len(paras) = 0 THEN <<>>
    ELSE IF Len(paras) = 1 THEN paras[1]
    ELSE paras[1] \o <<NL, NL>> \o Join(Tail(paras))

SplitTexts == {Join(ps) : ps \in UNION {[1..k -> ParagraphSamples] : k \in 1..MaxParas}}

\* a paragraph that fills a chunk of the default size with its separator
LongParagraph == Repeat("a", DefaultChunkSize - 2)

\* texts at the scale of the default chunk_size and overlap
DefaultTexts ==
    {Join(<<LongParagraph, LongParagraph>>),
     Join(<<<<" ">>, LongParagraph>>),
     Join(<<<<"b">>, <<"c">>>>)}

\* the call chunk_markdown_file(md_file) of process_markdown_files
DefaultCall == split_chunk_size = DefaultChunkSize /\ split_overlap = DefaultOverlap

InitSplit ==
    /\ vector_database = NoDatabase
    /\ InitService
    /\ InitFiles
    /\ \/ /\ split_content \in SplitTexts
          /\ split_chunk_size \in 1..MaxChunkSize
          /\ split_overlap \in 0..MaxChunkSize
       \/ /\ split_content \in DefaultTexts
          /\ split_chunk_size = DefaultChunkSize
          /\ split_overlap = DefaultOverlap
    /\ split_paragraphs = <<>>
    /\ split_next = 1
    /\ split_current_chunk = <<>>
    /\ split_chunks = <<>>
    /\ split_pc = "call"
    /\ split_saved = EmptyDict
    /\ split_buffers = <<>>
    /\ NoCalls

\* lines 188-193: the text is split at blank lines
SplitStart ==
    /\ split_pc = "call"
    /\ split_paragraphs' = SplitParagraphs(split_content)
    /\ split_pc' = "loop"
    /\ UNCHANGED <<split_content, split_chunk_size, split_overlap, split_next,
                   split_current_chunk, split_chunks, split_saved, split_buffers>>
    /\ UNCHANGED <<searchVars, ingestVars>>
    /\ UNCHANGED callVars

\* lines 195-212: one iteration of "for para in paragraphs"
SplitParagraph ==
    /\ split_pc = "loop"
    /\ split_next <= Len(split_paragraphs)
    /\ LET para == split_paragraphs[split_next]
       IN IF MustClose(split_current_chunk, para, split_chunk_size)
          THEN /\ split_chunks' = Append(split_chunks,
                                         ChunkRecord(split_current_chunk, split_chunks))
               /\ split_current_chunk' = NextBuffer(split_current_chunk, para, split_overlap)
               /\ split_buffers' = Append(split_buffers, split_current_chunk)
          ELSE /\ split_chunks' = split_chunks
               /\ split_current_chunk' = TestChunk(split_current_chunk, para)
               /\ split_buffers' = split_buffers
    /\ split_next' = split_next + 1
    /\ UNCHANGED <<split_content, split_chunk_size, split_overlap, split_paragraphs,
                   split_pc, split_saved>>
    /\ UNCHANGED <<searchVars, ingestVars>>
    /\ UNCHANGED callVars

\* lines 214-222: the final chunk and the return
SplitReturn ==
    /\ split_pc = "loop"
    /\ split_next > Len(split_paragraphs)
    /\ split_chunks' = FinalChunks(split_current_chunk, split_chunks)
    /\ split_buffers' = IF Len(split_chunks') > Len(split_chunks)
                        THEN Append(split_buffers, split_current_chunk)
                        ELSE split_buffers
    /\ split_pc' = "returned"
    /\ UNCHANGED <<split_content, split_chunk_size, split_overlap, split_paragraphs,
                   split_next, split_current_chunk, split_saved>>
    /\ UNCHANGED <<searchVars, ingestVars>>
    /\ UNCHANGED callVars

\* process_markdown_files, lines 276-312: the returned chunks of the source
\* 1/1.md are written to the chunk directory
SaveReturned ==
    /\ split_pc = "returned"
    /\ DefaultCall
    /\ split_chunks # <<>>
    /\ split_saved' = SaveChunks(split_saved, <<1, 1>>, split_chunks, 1, {})
    /\ split_pc' = "saved"
    /\ UNCHANGED <<split_content, split_chunk_size, split_overlap, split_paragraphs,
                   split_next, split_current_chunk, split_chunks, split_buffers>>
    /\ UNCHANGED <<searchVars, ingestVars>>
    /\ UNCHANGED callVars

NextSplit ==
    \/ SplitStart
    \/ SplitParagraph
    \/ SplitReturn
    \/ SaveReturned

SpecSplit == InitSplit /\ [][NextSplit]_vars

(***************************************************************************)
(* chunk.py: chunk_lines_to_json                                           *)
(***************************************************************************)
\* lines of a transcript export
MaxLines == 3

\* the head of a line that timestamp_pattern matches, up to ": ", kept as
\* one element of the line: ok is a date that strptime parses, bad one it
\* raises ValueError for
TimestampHeads ==
    [ok |-> "[2023-01-01 00:00:00 UTC] u: ", bad |-> "[2023-02-30 00:00:00 UTC] u: "]

\* the lines of the exports of this model, as readlines() returns them
TranscriptLines ==
    {<<NL>>, <<" ", NL>>, <<"a", NL>>, <<TimestampHeads.ok, "b", NL>>,
     <<TimestampHeads.bad, "c", NL>>}

\* the loop "for line_num, line in enumerate(lines, 1)"; metadata_map is
\* the set of the line numbers that <name>_metadata.json has an entry for
RECURSIVE ParseLines(_, _, _, _)
ParseLines(j, lines, line_num, metadata_map) ==
    IF line_num > Len(lines) THEN <<>>
    ELSE LET line == Strip(lines[line_num])
             rest == ParseLines(j, lines, line_num + 1, metadata_map)
             match == line # <<>> /\ Head(line) \in {TimestampHeads.ok, TimestampHeads.bad}
             message_obj ==
                 IF match
                 THEN [TranscriptMessage(j, line_num, Tail(line)) EXCEPT !.timestamp = <<2023>>]
                 ELSE TranscriptMessage(j, line_num, line)
             with_ids ==
                 IF line_num \in metadata_map
                 THEN [message_obj EXCEPT !.keys = @ \cup {"discord_info"},
                                          !.discord_info = <<1>>]
                 ELSE message_obj
         IN IF line = <<>> THEN rest
            ELSE IF match /\ Head(line) = TimestampHeads.bad THEN rest
            ELSE <<with_ids>> \o rest

\* chunk_lines_to_json on the export <j>.txt: writes <j>_messages.json
chunk_lines_to_json(j, metadata_map) ==
    /\ <<j, ".txt">> \in DOMAIN exports
    /\ j \notin DOMAIN discord_jsons
    /\ discord_jsons' =
           Put(discord_jsons, j, ParseLines(j, exports[<<j, ".txt">>], 1, metadata_map))
    /\ UNCHANGED <<searchVars, ingestVars, splitVars, md_call, ocr_call, search_call>>

InitTranscript ==
    /\ vector_database = NoDatabase
    /\ request = NoRequest
    /\ response = NoResponse
    /\ exports \in {(<<1, ".txt">> :> lines) : lines \in SeqsUpTo(TranscriptLines, MaxLines)}
    /\ InitFiles
    /\ NoSplit
    /\ NoCalls

NextTranscript ==
    \E metadata_map \in {{}, {1}, 1..MaxLines} : chunk_lines_to_json(1, metadata_map)

SpecTranscript == InitTranscript /\ [][NextTranscript]_vars

(***************************************************************************)
(* The three batch stages over directories that hold failing sources       *)
(***************************************************************************)
\* a byte sequence that is no UTF-8 text: readlines() raises on it
Undecodable(lines) ==
    \E i \in 1..Len(lines) : \E c \in 1..Len(lines[i]) : lines[i][c] = "<FF>"

\* the loop "for txt_file in txt_files" of process_discord_directory: an
\* export that chunk_lines_to_json raises on is reported and passed over
RECURSIVE DiscordLoop(_, _, _, _)
DiscordLoop(jsons, txt_files, t, files) ==
    IF t > Len(txt_files) THEN jsons
    ELSE DiscordLoop(IF Undecodable(files[txt_files[t]]) THEN jsons
                     ELSE Put(jsons, txt_files[t][1],
                              ParseLines(txt_files[t][1], files[txt_files[t]], 1, {})),
                     txt_files, t + 1, files)

\* chunk.py discord <directory>: one run of process_discord_directory
process_discord_directory ==
    /\ runs < MaxRuns
    /\ runs' = runs + 1
    /\ last_op' = "discord"
    /\ discord_jsons' = DiscordLoop(discord_jsons, Listing(DOMAIN exports, 1, 1), 1, exports)
    /\ UNCHANGED <<md_files, chunk_cache, chunk_store, unwritable, readonly_caches,
                   json_files, file_cache, vectors_pkl, md_run, vec_run, changed,
                   env_steps>>
    /\ UNCHANGED <<searchVars, splitVars, md_call, ocr_call, search_call>>

\* the input directories as a run finds them: any mix of readable and
\* failing sources in one of the three directories
InitBatch ==
    /\ vector_database = NoDatabase
    /\ request = NoRequest
    /\ response = NoResponse
    /\ \/ /\ md_files \in [MdPaths -> {NoFile} \cup [exists : {TRUE}, ver : {0, 1},
                                                     mode : MdModes]]
          /\ unwritable \in {{}, {ChunkId(1, 0)}}
          /\ json_files = [j \in JsonNames |-> NoFile]
          /\ exports = <<>>
       \/ /\ md_files = [p \in MdPaths |-> NoFile]
          /\ unwritable = {}
          /\ json_files \in [JsonNames -> {NoFile} \cup [exists : {TRUE}, ver : JsonVersions,
                                                         mode : JsonModes \cup {"misshaped"}]]
          /\ exports = <<>>
       \/ /\ md_files = [p \in MdPaths |-> NoFile]
          /\ unwritable = {}
          /\ json_files = [j \in JsonNames |-> NoFile]
          /\ exports \in [{<<j, ".txt">> : j \in JsonNames} ->
                             {<<>>, <<<<"a", NL>>>>, <<<<"a", NL>>, <<"<FF>", NL>>>>}]
    /\ chunk_cache = EmptyDict
    /\ chunk_store = EmptyDict
    /\ readonly_caches = {}
    /\ file_cache = EmptyDict
    /\ vectors_pkl = NoDatabase
    /\ md_run = NoMdRun
    /\ vec_run = NoVecRun
    /\ changed = {}
    /\ last_op = "none"
    /\ env_steps = 0
    /\ runs = 0
    /\ NoSplit
    /\ NoCalls

NextBatch ==
    \/ process_discord_directory
    \/ process_markdown_files
    \/ main

SpecBatch == InitBatch /\ [][NextBatch]_vars

(***************************************************************************)
(* chunk.py: a run of process_markdown_files step by step, with a process  *)
(* that can die at any step                                                *)
(***************************************************************************)
\* lines 236-317: the cache is loaded and the loop over the sources runs;
\* md_call.cache is the dict cache, md_call.before what the file held
MdRunLoop ==
    /\ md_call.pc = "idle"
    /\ \E p \in MdPaths : md_files[p].exists
    /\ LET markdown_files == Listing({p \in MdPaths : md_files[p].exists}, 1, 2)
           done == MdLoop([cache |-> chunk_cache, store |-> chunk_store,
                           skipped |-> {}, attempted |-> {}, processed |-> {}],
                          markdown_files, 1, md_files, unwritable)
       IN /\ chunk_store' = done.store
          /\ md_call' = [pc |-> "save", cache |-> done.cache, before |-> chunk_cache,
                         torn |-> FALSE]
    /\ UNCHANGED <<md_files, chunk_cache, unwritable, readonly_caches, json_files,
                   file_cache, vectors_pkl, md_run, vec_run, changed, last_op,
                   env_steps, runs>>
    /\ UNCHANGED <<searchVars, splitVars, discord_jsons, ocr_call, search_call>>

\* line 321, "open(cache_file, 'w')": the file is cut to length 0
CacheOpen ==
    /\ md_call.pc = "save"
    /\ chunk_cache' = EmptyDict
    /\ md_call' = [md_call EXCEPT !.pc = "opened", !.torn = TRUE]
    /\ UNCHANGED <<md_files, chunk_store, unwritable, readonly_caches, json_files,
                   file_cache, vectors_pkl, md_run, vec_run, changed, last_op,
                   env_steps, runs>>
    /\ UNCHANGED <<searchVars, splitVars, discord_jsons, ocr_call, search_call>>

\* line 322, json.dump: the text of the first k entries has reached the
\* file, which is not yet a complete JSON text
CacheDump(k) ==
    /\ md_call.pc = "opened"
    /\ LET keys == Listing(DOMAIN md_call.cache, 1, 2)
       IN /\ k < Len(keys)
          /\ chunk_cache' = [key \in {keys[i] : i \in 1..k} |-> md_call.cache[key]]
    /\ md_call' = [md_call EXCEPT !.pc = "dumping"]
    /\ UNCHANGED <<md_files, chunk_store, unwritable, readonly_caches, json_files,
                   file_cache, vectors_pkl, md_run, vec_run, changed, last_op,
                   env_steps, runs>>
    /\ UNCHANGED <<searchVars, splitVars, discord_jsons, ocr_call, search_call>>

\* the end of the with block: everything is written and the file closed
CacheClose ==
    /\ md_call.pc \in {"opened", "dumping"}
    /\ chunk_cache' = md_call.cache
    /\ md_call' = [md_call EXCEPT !.pc = "done", !.torn = FALSE]
    /\ UNCHANGED <<md_files, chunk_store, unwritable, readonly_caches, json_files,
                   file_cache, vectors_pkl, md_run, vec_run, changed, last_op,
                   env_steps, runs>>
    /\ UNCHANGED <<searchVars, splitVars, discord_jsons, ocr_call, search_call>>

\* the process is killed, or the machine stops
Crash ==
    /\ md_call.pc \in {"save", "opened", "dumping"}
    /\ md_call' = [md_call EXCEPT !.pc = "crashed"]
    /\ UNCHANGED <<searchVars, ingestVars, splitVars, discord_jsons, ocr_call, search_call>>

\* any mix of markdown sources; the cache of an earlier run or none
InitCrash ==
    /\ vector_database = NoDatabase
    /\ InitService
    /\ md_files \in [MdPaths -> {NoFile} \cup [exists : {TRUE}, ver : MdVersions,
                                               mode : MdModes]]
    /\ chunk_cache \in {EmptyDict, (<<1, 1>> :> MdDigestOfVersion[2])}
    /\ chunk_store = EmptyDict
    /\ unwritable = {}
    /\ readonly_caches = {}
    /\ json_files = [j \in JsonNames |-> NoFile]
    /\ file_cache = EmptyDict
    /\ vectors_pkl = NoDatabase
    /\ md_run = NoMdRun
    /\ vec_run = NoVecRun
    /\ changed = {}
    /\ last_op = "none"
    /\ env_steps = 0
    /\ runs = 0
    /\ NoSplit
    /\ NoCalls

NextCrash ==
    \/ MdRunLoop
    \/ CacheOpen
    \/ \E k \in 0..Cardinality(MdPaths) : CacheDump(k)
    \/ CacheClose
    \/ Crash

SpecCrash == InitCrash /\ [][NextCrash]_vars

(***************************************************************************)
(* extractText.py: the parallel OCR of process_single_pdf                  *)
(***************************************************************************)
\* pages of a PDF
MaxPages == 4
\* processes of the pool
MaxWorkers == 2

\* what ocr_page returns for a page: (page_number, text), the text being
\* the error text when the conversion or tesseract failed
ocr_page(page_number, failed) ==
    <<page_number, IF failed THEN <<"[ERROR page ", page_number, "]">>
                   ELSE <<"text of page ", page_number>>>>

Slot_arrival(page_num, arrival) == arrival

\* "texts[page_num - 1] = text", as a 1-based index; arrival counts the
\* results taken from the pool so far
Slot(page_num, arrival) == page_num

\* a worker of the pool ends the task of a page; the pool hands the tasks
\* out in page order, at most workers of them are under way
OcrFinish(page, failed) ==
    /\ ocr_call.pc = "pool"
    /\ page \in (1..ocr_call.page_count) \ ocr_call.done
    /\ Cardinality({q \in (1..ocr_call.page_count) \ ocr_call.done : q < page})
           < ocr_call.workers
    /\ ocr_call' = [ocr_call EXCEPT !.done = @ \cup {page},
                                    !.yielded = Append(@, ocr_page(page, failed))]
    /\ UNCHANGED <<searchVars, ingestVars, splitVars, discord_jsons, md_call, search_call>>

\* one iteration of "for page_num, text in pool.imap_unordered(...)"
OcrCollect ==
    /\ ocr_call.pc = "pool"
    /\ ocr_call.yielded # <<>>
    /\ LET page_num == Head(ocr_call.yielded)[1]
           text == Head(ocr_call.yielded)[2]
           arrival == Len(ocr_call.collected) + 1
           slot == Slot(page_num, arrival)
       IN ocr_call' = [ocr_call EXCEPT !.yielded = Tail(@),
                                       !.collected = Append(@, page_num),
                                       !.texts[slot] = text,
                                       !.writes[slot] = @ + 1]
    /\ UNCHANGED <<searchVars, ingestVars, splitVars, discord_jsons, md_call, search_call>>

\* the pool is left after the last result: "\n".join(texts)
OcrJoin ==
    /\ ocr_call.pc = "pool"
    /\ ocr_call.done = 1..ocr_call.page_count
    /\ ocr_call.yielded = <<>>
    /\ LET RECURSIVE JoinTexts(_)
           JoinTexts(texts) ==
               IF Len(texts) = 0 THEN <<>>
               ELSE IF Len(texts) = 1 THEN texts[1]
               ELSE texts[1] \o <<NL>> \o JoinTexts(Tail(texts))
       IN ocr_call' = [ocr_call EXCEPT !.pc = "joined", !.out = JoinTexts(ocr_call.texts)]
    /\ UNCHANGED <<searchVars, ingestVars, splitVars, discord_jsons, md_call, search_call>>

\* "texts = [None] * page_count" (None is <<>>) and the pool of workers
InitOcr ==
    /\ vector_database = NoDatabase
    /\ InitService
    /\ InitFiles
    /\ NoSplit
    /\ discord_jsons = EmptyDict
    /\ md_call = [pc |-> "idle", cache |-> EmptyDict, before |-> EmptyDict, torn |-> FALSE]
    /\ search_call = [pc |-> "idle", vector_database |-> NoDatabase,
                      similarities |-> <<>>, argsorted |-> <<>>, served |-> {}]
    /\ \E page_count \in 1..MaxPages, workers \in 1..MaxWorkers :
          ocr_call = [pc |-> "pool", page_count |-> page_count, workers |-> workers,
                      done |-> {}, yielded |-> <<>>, collected |-> <<>>,
                      texts |-> [i \in 1..page_count |-> <<>>],
                      writes |-> [i \in 1..page_count |-> 0], out |-> <<>>]

NextOcr ==
    \/ \E page \in 1..MaxPages, failed \in BOOLEAN : OcrFinish(page, failed)
    \/ OcrCollect
    \/ OcrJoin

SpecOcr == InitOcr /\ [][NextOcr]_vars

(***************************************************************************)
(* app.py: requests served while vectors.pkl is rewritten and reloaded     *)
(***************************************************************************)
\* what vectors.pkl can be found as: absent, a pickle stream that was cut
\* before its end (create_vectors.py writes the file in place), or one of two
\* complete indexes of the same size over different messages
PickleFiles ==
    LET old == create_vectors(<<TranscriptMessage(1, 1, <<"a">>),
                                TranscriptMessage(1, 2, <<"b">>)>>)
        new == create_vectors(<<TranscriptMessage(2, 1, <<"b">>),
                                TranscriptMessage(2, 2, <<"a">>)>>)
    IN {NoDatabase, [new EXCEPT !.loaded = FALSE, !.message_metadata = <<>>], old, new}

\* None for a missing file and for one pickle.load raises on
load_vector_database(file) == IF file.loaded THEN file ELSE NoDatabase

\* the file system changes vectors.pkl
WritePickle(file) ==
    /\ file # vectors_pkl
    /\ vectors_pkl' = file
    /\ last_op' = "env"
    /\ UNCHANGED <<md_files, chunk_cache, chunk_store, unwritable, readonly_caches,
                   json_files, file_cache, md_run, vec_run, changed, env_steps, runs>>
    /\ UNCHANGED <<searchVars, splitVars, callVars>>

ReloadResult_assign(new_database, current) == new_database

\* "if new_database is None: return ..., 500" before "vector_database = new_database"
ReloadResult(new_database, current) ==
    IF new_database = NoDatabase THEN current ELSE new_database

\* POST /reload_vectors; served records the databases the global held while
\* a /search request was under way
reload_vectors ==
    /\ vector_database' = ReloadResult(load_vector_database(vectors_pkl), vector_database)
    /\ last_op' = "reload"
    /\ search_call' =
         IF search_call.pc \in {"checked", "ranked"}
         THEN [search_call EXCEPT !.served = @ \cup {vector_database'}]
         ELSE search_call
    /\ UNCHANGED <<md_files, chunk_cache, chunk_store, unwritable, readonly_caches,
                   json_files, file_cache, vectors_pkl, md_run, vec_run, changed,
                   env_steps, runs>>
    /\ UNCHANGED <<request, response, exports>>
    /\ UNCHANGED <<splitVars, discord_jsons, md_call, ocr_call>>

\* POST /search up to the call of search_vectors: the check of the global
\* for None and the validation of the query
SearchBegin(query, top_k_raw) ==
    /\ request = NoRequest
    /\ search_call.pc = "idle"
    /\ request' = [endpoint |-> "search", query |-> query, top_k_raw |-> top_k_raw,
                   filters |-> NoFilters]
    /\ IF ~vector_database.loaded
       THEN /\ response' = ErrorResponse(500)
            /\ search_call' = [search_call EXCEPT !.pc = "done"]
       ELSE IF query = <<>>
       THEN /\ response' = ErrorResponse(400)
            /\ search_call' = [search_call EXCEPT !.pc = "done"]
       ELSE /\ response' = response
            /\ search_call' = [search_call EXCEPT !.pc = "checked",
                                                  !.served = {vector_database}]
    /\ UNCHANGED <<vector_database, exports>>
    /\ UNCHANGED <<ingestVars, splitVars, discord_jsons, md_call, ocr_call>>

\* the call search_vectors(query, vector_database, top_k) binds the global to
\* the parameter; the body computes similarities and their argsort
SearchRank ==
    /\ search_call.pc = "checked"
    /\ \E argsorted \in Argsorts(Similarities(request.query, vector_database)) :
        search_call' = [search_call EXCEPT !.pc = "ranked",
                                           !.vector_database = vector_database,
                                           !.similarities =
                                               Similarities(request.query, vector_database),
                                           !.argsorted = argsorted]
    /\ UNCHANGED <<searchVars, ingestVars, splitVars, discord_jsons, md_call, ocr_call>>

SearchArgument_global(parameter, global) == global

\* inside search_vectors the name vector_database is the parameter
SearchArgument(parameter, global) == parameter

\* the loop over top_indices of search_vectors, and the response of /search
SearchCollect ==
    /\ search_call.pc = "ranked"
    /\ LET database == SearchArgument(search_call.vector_database, vector_database)
           ranked == IF Len(search_call.similarities) = 0 THEN <<>>
                     ELSE CollectResults(TopIndices(search_call.argsorted,
                                                    ParseTopK(request.top_k_raw)),
                                         1, search_call.similarities, database)
           filtered == ApplyFilters(ranked, request.filters)
       IN response' = IF filtered.raised THEN ErrorResponse(500)
                      ELSE [status |-> 200,
                            results |-> FormatAll("search", filtered.results),
                            argsorted |-> search_call.argsorted,
                            ranked |-> ranked]
    /\ search_call' = [search_call EXCEPT !.pc = "done"]
    /\ UNCHANGED <<vector_database, request, exports>>
    /\ UNCHANGED <<ingestVars, splitVars, discord_jsons, md_call, ocr_call>>

\* the module loads vectors.pkl once when it is imported
InitServe ==
    /\ vectors_pkl \in PickleFiles
    /\ vector_database = load_vector_database(vectors_pkl)
    /\ InitService
    /\ md_files = [p \in MdPaths |-> NoFile]
    /\ chunk_cache = EmptyDict
    /\ chunk_store = EmptyDict
    /\ unwritable = {}
    /\ readonly_caches = {}
    /\ json_files = [j \in JsonNames |-> NoFile]
    /\ file_cache = EmptyDict
    /\ md_run = NoMdRun
    /\ vec_run = NoVecRun
    /\ changed = {}
    /\ last_op = "none"
    /\ env_steps = 0
    /\ runs = 0
    /\ NoSplit
    /\ NoCalls

NextServe ==
    \/ \E file \in PickleFiles : WritePickle(file)
    \/ reload_vectors
    \/ \E query \in {<<>>, <<"a">>} :
        \E top_k_raw \in {[kind |-> "absent", val |-> 0], [kind |-> "int", val |-> 1]} :
            SearchBegin(query, top_k_raw)
    \/ SearchRank
    \/ SearchCollect
    \/ \E argsorted \in (IF vector_database.loaded
                         THEN Argsorts(Similarities(<<"a">>, vector_database))
                         ELSE {<<>>}) :
        \/ search_discord(<<"a">>, [kind |-> "absent", val |-> 0], NoFilters, argsorted)
        \/ search_markdown(<<"a">>, [kind |-> "absent", val |-> 0], NoFilters, argsorted)
    \/ \E chunk_id \in {ChunkId(1, 0)} :
        get_context(chunk_id, <<>>, [kind |-> "absent", val |-> 0],
                    [kind |-> "absent", val |-> 0])

SpecServe == InitServe /\ [][NextServe]_vars

(***************************************************************************)
(* C1: for top_k >= 1 a successful search returns at most top_k results,   *)
(* in non-increasing order of score, each with a score above 0.            *)
(***************************************************************************)
C1_TopKSortedPositive ==
    (response.status = 200 /\ ParseTopK(request.top_k_raw) >= 1) =>
        /\ Len(response.results) <= ParseTopK(request.top_k_raw)
        /\ \A i \in 1..Len(response.results) : response.results[i].score.n > 0
        /\ \A i, j \in 1..Len(response.results) :
               i < j => ~ScoreLess(response.results[i].score, response.results[j].score)

\* a search that was cut at top_k: more records score above 0 than top_k
C1_Witness ==
    /\ response.status = 200
    /\ ParseTopK(request.top_k_raw) = 2
    /\ Len(response.results) = 2
    /\ ScoreLess(response.results[2].score, response.results[1].score)
    /\ Cardinality({i \in 1..Len(vector_database.embeddings) :
           Similarities(request.query, vector_database)[i].n > 0}) = 3

(***************************************************************************)
(* C2: a top_k of 0 or below is replaced by the default 10: the response   *)
(* is the one a request with top_k = 10 gets.                              *)
(***************************************************************************)
C2_NonPositiveTopKFallsBack ==
    (response.status = 200 /\ ParseTopK(request.top_k_raw) <= 0) =>
        response.results =
            FormatAll("search", search_vectors(request.query, vector_database,
                                               DefaultTopK, response.argsorted))

(***************************************************************************)
(* Readings of the state right after a run                                 *)
(***************************************************************************)
\* the entry of a key in a cache: <<digest>>, or <<>> when there is none
Entry(dict, key) == IF key \in DOMAIN dict THEN <<dict[key]>> ELSE <<>>

\* the chunk records the store holds for a source
RecordsOf(md_file, store) ==
    {store[id] : id \in {i \in DOMAIN store : store[i].metadata.file_path = md_file}}

\* the chunk records the splitter gives for the current content of a source
CurrentRecords(md_file) ==
    LET chunks == chunk_markdown_file(md_files[md_file])
    IN {ChunkData(md_file, chunks[c]) : c \in 1..Len(chunks)}

\* the cache loaded at the start of the last markdown run holds the current
\* digest of the source
MdCacheHit(p) ==
    /\ p \in DOMAIN md_run.loaded
    /\ md_run.loaded[p] = get_file_hash(md_files[p]).hex

\* the same for a transcript file and the last run of load_chunked_files
JsonCacheHit(j) ==
    /\ j \in DOMAIN vec_run.loaded
    /\ vec_run.loaded[j] = get_json_hash(j, json_files[j]).hex

C4_EntryOnlyAfterFullSuccess ==
    /\ last_op = "markdown" =>
         \A p \in md_run.attempted :
            (\/ md_files[p].mode # "ok"
             \/ \E r \in CurrentRecords(p) : r.chunk_id \in unwritable)
            => Entry(chunk_cache, p) = Entry(md_run.loaded, p)
    /\ last_op = "vectors" =>
         \A j \in vec_run.files_to_process :
            json_files[j].mode # "ok" => Entry(file_cache, j) = Entry(vec_run.loaded, j)

(***************************************************************************)
(* C5: a source whose digest cannot be computed is passed on to processing *)
(* in every stage, never skipped.                                          *)
(***************************************************************************)
C5_UnhashableIsProcessed ==
    /\ last_op = "markdown" =>
         \A p \in MdPaths :
            (md_files[p].exists /\ ~get_file_hash(md_files[p]).ok) => p \in md_run.attempted
    /\ last_op = "vectors" =>
         \A j \in JsonNames :
            (json_files[j].exists /\ ~get_json_hash(j, json_files[j]).ok)
            => j \in vec_run.files_to_process

(***************************************************************************)
(* C6: after every run of create_vectors.main the persisted index holds    *)
(* one record for every non-empty message of every current transcript file *)
(* and for every current markdown chunk.                                   *)
(***************************************************************************)
\* the messages of all readable transcript files and of all chunk files
CurrentMessages ==
    LET json_list == JsonListing(json_files)
    IN KeepWithContent(
         LoadMessages(json_list, {json_list[i] : i \in 1..Len(json_list)}, json_files)
         \o load_markdown_chunks(chunk_store))

C6_IndexHoldsEveryCurrentRecord ==
    last_op = "vectors" =>
        \A k \in 1..Len(CurrentMessages) :
            Cardinality({i \in 1..Len(vectors_pkl.message_metadata) :
                vectors_pkl.message_metadata[i].original_message = CurrentMessages[k]}) = 1

(***************************************************************************)
(* C7: a markdown run that directly follows a markdown run, with nothing   *)
(* changed in between, leaves the persisted cache and the chunk store as   *)
(* the first run left them.                                                *)
(***************************************************************************)
C7_RerunChangesNothing ==
    [][(last_op = "markdown" /\ last_op' = "markdown")
        => (chunk_cache' = chunk_cache /\ chunk_store' = chunk_store)]_vars

\* a second run in a row over sources with chunks in the store
C7_Witness ==
    /\ last_op = "markdown"
    /\ md_run.rerun
    /\ Cardinality(md_run.skipped) >= 2
    /\ Cardinality(DOMAIN chunk_store) >= 2

(***************************************************************************)
(* C8: when exactly one source changed since the previous markdown run,    *)
(* the run leaves the chunk records and the cache entry of every other     *)
(* source as they were, whatever the directory layout.                     *)
(***************************************************************************)
C8_UntouchedSourcesKept ==
    [][(last_op' = "markdown" /\ md_run.ran /\ Cardinality(changed) = 1)
        => \A u \in MdPaths \ changed :
              md_files[u].exists =>
                  /\ RecordsOf(u, chunk_store') = RecordsOf(u, chunk_store)
                  /\ Entry(chunk_cache', u) = Entry(chunk_cache, u)]_vars

(***************************************************************************)
(* C9: chunk identifiers are unique in the store: two distinct chunks of   *)
(* the sources a run processed never share a chunk_id, so every record the *)
(* run wrote is still in the store when the run ends.                      *)
(***************************************************************************)
C9_ChunkIdsUnique ==
    last_op = "markdown" =>
        /\ \A p, q \in md_run.processed :
              \A r \in CurrentRecords(p), t \in CurrentRecords(q) :
                  r.chunk_id = t.chunk_id => r = t
        /\ \A p \in md_run.processed :
              \A r \in CurrentRecords(p) :
                  r.chunk_id \notin unwritable
                  => (r.chunk_id \in DOMAIN chunk_store /\ chunk_store[r.chunk_id] = r)

(***************************************************************************)
(* C10: after a source with a changed digest was re-chunked with every     *)
(* write succeeding, the store holds for that source exactly the chunks of *)
(* its current content, also when these are fewer than before.             *)
(***************************************************************************)
C10_OldChunksReplaced ==
    last_op = "markdown" =>
        \A p \in md_run.processed :
            (/\ p \in DOMAIN md_run.loaded
             /\ \A id \in unwritable : id[1] # p[2]
             /\ \A q \in MdPaths \ {p} : md_files[q].exists => q[2] # p[2])
            => RecordsOf(p, chunk_store) = CurrentRecords(p)

(***************************************************************************)
(* C11: every chunk record the splitter makes, and every chunk record      *)
(* written to the chunk directory, has a non-empty content.                *)
(***************************************************************************)
C11_ContentNeverEmpty ==
    /\ \A i \in 1..Len(split_chunks) : split_chunks[i].content # <<>>
    /\ \A id \in DOMAIN split_saved : split_saved[id].content # <<>>

(***************************************************************************)
(* C12: with overlap < chunk_size, a chunk counts more than chunk_size     *)
(* characters only when it is one paragraph of the text that is by itself  *)
(* longer than chunk_size.                                                 *)
(***************************************************************************)
C12_OnlyOversizedParagraphExceeds ==
    split_overlap < split_chunk_size =>
        \A i \in 1..Len(split_chunks) :
            split_chunks[i].char_count > split_chunk_size =>
                \E p \in 1..Len(split_paragraphs) :
                    /\ Len(split_paragraphs[p]) > split_chunk_size
                    /\ split_chunks[i].char_count = Len(split_paragraphs[p])
                    /\ split_chunks[i].content = Strip(split_paragraphs[p])

\* the last k characters of s
Trailing(s, k) == SubSeq(s, Len(s) - k + 1, Len(s))

(***************************************************************************)
(* C13: with 0 <= overlap < chunk_size, the step that closes a chunk       *)
(* leaves as the buffer the trailing min(overlap, length of the closed     *)
(* buffer) characters of the closed buffer, the separator and the          *)
(* paragraph that triggered the split.                                     *)
(***************************************************************************)
C13_BufferSeededWithOverlap ==
    [][(/\ split_pc = "loop" /\ split_pc' = "loop"
        /\ Len(split_chunks') > Len(split_chunks)
        /\ split_overlap < split_chunk_size)
       => split_current_chunk' =
            Trailing(split_current_chunk,
                     Min({split_overlap, Len(split_current_chunk)}))
            \o <<NL, NL>> \o split_paragraphs[split_next]]_vars

(***************************************************************************)
(* C14: a call with overlap >= chunk_size produces no chunk and writes no  *)
(* chunk record.                                                           *)
(***************************************************************************)
C14_BadOverlapRejected ==
    split_overlap >= split_chunk_size =>
        (split_chunks = <<>> /\ split_saved = EmptyDict)

\* the paragraphs with some text, without their surrounding whitespace
RECURSIVE NonBlank(_)
NonBlank(paras) ==
    IF paras = <<>> THEN <<>>
    ELSE IF Strip(Head(paras)) = <<>> THEN NonBlank(Tail(paras))
    ELSE <<Strip(Head(paras))>> \o NonBlank(Tail(paras))

\* s occurs in t as a run of consecutive characters
OccursIn(s, t) ==
    \E k \in 0..(Len(t) - Len(s)) : SubSeq(t, k + 1, k + Len(s)) = s

\* the buffer of chunk i without the characters carried over from chunk i - 1
WithoutCarried(i) ==
    IF i = 1 THEN split_buffers[1]
    ELSE PySliceFrom(split_buffers[i],
                     Min({split_overlap, Len(split_buffers[i - 1])}) + 2)

\* the paragraphs of chunks i .. , carried-over prefixes removed
RECURSIVE Reassembled(_)
Reassembled(i) ==
    IF i > Len(split_buffers) THEN <<>>
    ELSE SplitParagraphs(WithoutCarried(i)) \o Reassembled(i + 1)

(***************************************************************************)
(* C15: with overlap < chunk_size, every paragraph of the text is whole in *)
(* some returned chunk, and the chunks in order, each without the prefix   *)
(* carried over from its predecessor, give the paragraphs of the text in   *)
(* their order (paragraphs compared without surrounding whitespace, blank  *)
(* paragraphs left out).                                                   *)
(***************************************************************************)
C15_ParagraphsKeptWhole ==
    (split_pc = "returned" /\ split_overlap < split_chunk_size) =>
        /\ \A p \in 1..Len(split_paragraphs) :
              Strip(split_paragraphs[p]) # <<>> =>
                \E i \in 1..Len(split_chunks) :
                    OccursIn(Strip(split_paragraphs[p]), split_chunks[i].content)
        /\ \A i \in 1..Len(split_chunks) :
              split_chunks[i].content = Strip(split_buffers[i])
        /\ NonBlank(Reassembled(1)) = NonBlank(split_paragraphs)

\* the ranked result r satisfies every active facet of filters
SatisfiesFacets(r, filters) ==
    /\ filters.year # <<>> => r.metadata.timestamp = filters.year
    /\ filters.channel # <<>> =>
          ("discord_info" \in r.metadata.keys /\ r.metadata.discord_info = filters.channel)
    /\ filters.source_type # "" =>
          \/ filters.source_type = "discord" /\ "discord_info" \in r.metadata.keys
          \/ filters.source_type = "markdown" /\ "file_path" \in r.metadata.keys

(***************************************************************************)
(* C16: the results that POST /search answers are the ranked results that  *)
(* satisfy every active facet, in their ranked order; with no active facet *)
(* they are all ranked results.                                            *)
(***************************************************************************)
C16_FilterKeepsExactlyMatching ==
    (request.endpoint = "search" /\ response.status = 200) =>
        LET Keep(r) == SatisfiesFacets(r, request.filters)
        IN response.results = FormatAll("search", SelectSeq(response.ranked, Keep))

(***************************************************************************)
(* C17: on search, search_discord and search_markdown, every ranked result *)
(* of the endpoint's kind that satisfies the active facets is in the       *)
(* response.                                                               *)
(***************************************************************************)
C17_MatchingResultsKept ==
    (response.status = 200 /\ request.endpoint # "none") =>
        \A i \in 1..Len(response.ranked) :
            (/\ SatisfiesFacets(response.ranked[i], request.filters)
             /\ request.endpoint = "search_discord" =>
                    "discord_info" \in response.ranked[i].metadata.keys
             /\ request.endpoint = "search_markdown" =>
                    "file_path" \in response.ranked[i].metadata.keys)
            => \E j \in 1..Len(response.results) :
                   response.results[j] = Formatted(request.endpoint, response.ranked[i])

\* a line-addressed request of the context endpoint, answered
LineAddressed(req) == req.endpoint = "context" /\ req.chunk_id = <<>>

\* the target line and the window of a context request
TargetLine(req) == ParseIntOr(req.line_number_raw, 0)

WindowOf(req) == ParseIntOr(req.context_lines_raw, DefaultContextLines)

(***************************************************************************)
(* C18: a successful line-addressed context response for target line       *)
(* L >= 1, window w and a file of n lines holds exactly the lines          *)
(* max(1, L - w) .. min(n, L + w), ascending, each with its 1-based line   *)
(* number.                                                                 *)
(***************************************************************************)
C18_WindowClampedToFile ==
    (LineAddressed(request) /\ response.status = 200) =>
        LET lines == exports[request.source_file]
            first == Max({1, TargetLine(request) - WindowOf(request)})
            last == Min({Len(lines), TargetLine(request) + WindowOf(request)})
        IN /\ TargetLine(request) >= 1
           /\ Len(response.context) = Max({0, last - first + 1})
           /\ \A k \in 1..Len(response.context) :
                  /\ response.context[k].line_number = first + k - 1
                  /\ response.context[k].content = RStrip(lines[first + k - 1])

\* "window = 2 at line 1 clamps to lines 1-3", in a file of more than 3 lines
C18_Witness ==
    /\ LineAddressed(request) /\ response.status = 200
    /\ TargetLine(request) = 1 /\ WindowOf(request) = 2
    /\ Len(exports[request.source_file]) > 3
    /\ Len(response.context) = 3
    /\ response.context[3].line_number = 3
    /\ response.context[1].content = <<Alphabet[2]>>

(***************************************************************************)
(* C19: every successful line-addressed context response has exactly one   *)
(* record flagged is_target, the record of the requested line.             *)
(***************************************************************************)
C19_ExactlyOneTarget ==
    (LineAddressed(request) /\ response.status = 200) =>
        /\ Cardinality({k \in 1..Len(response.context) :
                            response.context[k].is_target}) = 1
        /\ \A k \in 1..Len(response.context) :
               response.context[k].is_target
                   <=> response.context[k].line_number = TargetLine(request)

(***************************************************************************)
(* C20: with the index loaded, a chunk id that is not in the index and a   *)
(* source file that does not exist are answered 404, a line-addressed      *)
(* request whose line number is <= 0 or missing is answered 400; these     *)
(* answers carry no context line and the index is left as it was.          *)
(***************************************************************************)
C20_LocatorErrors ==
    [][(request'.endpoint = "context" /\ vector_database.loaded) =>
          LET unknown_chunk ==
                  /\ request'.chunk_id # <<>>
                  /\ \A idx \in 1..Len(vector_database.message_metadata) :
                         "chunk_id" \in vector_database.message_metadata[idx].keys
                             => vector_database.message_metadata[idx].chunk_id
                                    # request'.chunk_id
              bad_line == LineAddressed(request') /\ TargetLine(request') <= 0
              no_file == /\ LineAddressed(request') /\ TargetLine(request') > 0
                         /\ request'.source_file # <<>>
                         /\ request'.source_file \notin DOMAIN exports
          IN /\ unknown_chunk => response'.status = 404
             /\ no_file => response'.status = 404
             /\ bad_line => response'.status = 400
             /\ (unknown_chunk \/ no_file \/ bad_line) =>
                    /\ response'.context = <<>>
                    /\ response'.content = <<>>
                    /\ vector_database' = vector_database]_vars

\* line number 0 on an export that exists, refused
C20_Witness ==
    /\ LineAddressed(request) /\ vector_database.loaded
    /\ request.line_number_raw = [kind |-> "int", val |-> 0]
    /\ request.source_file \in DOMAIN exports
    /\ Len(exports[request.source_file]) > 0
    /\ response.status = 400

(***************************************************************************)
(* C21: embeddings and message_metadata of the served index have the same  *)
(* length, embeddings[i] is the embedding of the content kept in           *)
(* message_metadata[i] (messages with an empty content are in neither),    *)
(* and the score, the metadata and the content of every search result are  *)
(* those of one index i.                                                   *)
(***************************************************************************)
C21_ParallelArraysAligned ==
    /\ Len(vector_database.embeddings) = Len(vector_database.message_metadata)
    /\ \A i \in 1..Len(vector_database.message_metadata) :
           /\ vector_database.message_metadata[i].original_message.content # <<>>
           /\ vector_database.embeddings[i]
                  = Encode(vector_database.message_metadata[i].original_message.content)
    /\ (response.status = 200) =>
           \A k \in 1..Len(response.ranked) :
               \E i \in 1..Len(vector_database.message_metadata) :
                   /\ response.ranked[k].metadata = vector_database.message_metadata[i]
                   /\ response.ranked[k].content
                          = vector_database.message_metadata[i].original_message.content
                   /\ response.ranked[k].score
                          = cosine_similarity(Encode(request.query),
                                              vector_database.embeddings[i])

\* the message of line 1 had no content, so that index 1 holds line 2; a
\* search returns the record of a later line
C21_Witness ==
    /\ Len(vector_database.message_metadata) >= 2
    /\ vector_database.message_metadata[1].line_number = 2
    /\ response.status = 200
    /\ \E k \in 1..Len(response.ranked) : response.ranked[k].metadata.line_number = 3

(***************************************************************************)
(* C25: results of equal similarity come in original index order: of two   *)
(* results with the same score the one of the lower index is first, and a  *)
(* record left out by top_k has a higher index than every result of the    *)
(* same similarity.                                                        *)
(***************************************************************************)
C25_TiesInIndexOrder ==
    (response.status = 200 /\ request.endpoint = "search") =>
        LET ranked == response.ranked
            similarities == Similarities(request.query, vector_database)
            IndexOf(result) ==
                CHOOSE i \in 1..Len(vector_database.message_metadata) :
                    vector_database.message_metadata[i] = result.metadata
            returned == {IndexOf(ranked[k]) : k \in 1..Len(ranked)}
        IN /\ \A k, l \in 1..Len(ranked) :
                  (k < l /\ ScoreEq(ranked[k].score, ranked[l].score))
                      => IndexOf(ranked[k]) < IndexOf(ranked[l])
           /\ \A k \in 1..Len(ranked) :
                  \A i \in 1..Len(similarities) :
                      (i \notin returned /\ ScoreEq(similarities[i], ranked[k].score))
                          => IndexOf(ranked[k]) < i

(***************************************************************************)
(* C26: the char_count of every chunk record, returned or saved, is the    *)
(* number of characters of its stored content.                             *)
(***************************************************************************)
C26_CharCountOfStoredContent ==
    /\ \A i \in 1..Len(split_chunks) :
           split_chunks[i].char_count = Len(split_chunks[i].content)
    /\ \A id \in DOMAIN split_saved :
           split_saved[id].char_count = Len(split_saved[id].content)

(***************************************************************************)
(* C29: every record that search_vectors ranks is kept by exactly one of   *)
(* the source_type filter values "discord" and "markdown", and that value  *)
(* is the source_type the search endpoint reports for it.                  *)
(***************************************************************************)
C29_SourceKindPartitions ==
    (response.status = 200 /\ request.endpoint = "search") =>
        \A k \in 1..Len(response.ranked) :
            LET r == response.ranked[k]
                keeping == {v \in {"discord", "markdown"} :
                               filter_results(<<r>>, [NoFilters EXCEPT !.source_type = v])
                                   = <<r>>}
            IN keeping = {Formatted("search", r).source_type}

(***************************************************************************)
(* C30: the messages chunk_lines_to_json writes are, in order, one record  *)
(* for every non-blank line of the export, with the 1-based position of    *)
(* the line as line_number; blank lines have no record.                    *)
(***************************************************************************)
C30_OneMessagePerLine ==
    \A j \in DOMAIN discord_jsons :
        LET lines == exports[<<j, ".txt">>]
            messages == discord_jsons[j]
            non_blank == {i \in 1..Len(lines) : Strip(lines[i]) # <<>>}
        IN /\ Len(messages) = Cardinality(non_blank)
           /\ \A i \in non_blank :
                  Cardinality({k \in 1..Len(messages) : messages[k].line_number = i}) = 1
           /\ \A k \in 1..Len(messages) : messages[k].line_number \in non_blank
           /\ \A k, l \in 1..Len(messages) :
                  k < l => messages[k].line_number < messages[l].line_number

(***************************************************************************)
(* C22: a source that fails does not end the batch: after a run of a       *)
(* stage, every source of the directory that is readable, well-formed and  *)
(* not skipped for its digest has been processed, whatever the other       *)
(* sources of the run did, and the cache the run persisted holds it.       *)
(***************************************************************************)
C22_FailureDoesNotAbortBatch ==
    /\ last_op = "discord" =>
         \A name \in DOMAIN exports :
             ~Undecodable(exports[name]) =>
                 /\ name[1] \in DOMAIN discord_jsons
                 /\ discord_jsons[name[1]] = ParseLines(name[1], exports[name], 1, {})
    /\ last_op = "markdown" =>
         \A p \in MdPaths :
             (/\ md_files[p].exists /\ md_files[p].mode = "ok"
              /\ chunk_markdown_file(md_files[p]) # <<>>
              /\ ~MdCacheHit(p))
             => /\ p \in md_run.processed
                /\ "chunk_cache.json" \notin readonly_caches
                      => Entry(chunk_cache, p) = <<get_file_hash(md_files[p]).hex>>
    /\ last_op = "vectors" =>
         \A j \in JsonNames :
             (json_files[j].exists /\ json_files[j].mode = "ok" /\ ~JsonCacheHit(j))
             => /\ j \in vec_run.files_to_process
                /\ \A i \in 1..Len(JsonData(j, json_files[j].ver)) :
                       JsonData(j, json_files[j].ver)[i].content # <<>> =>
                           \E k \in 1..Len(vectors_pkl.message_metadata) :
                               vectors_pkl.message_metadata[k].original_message
                                   = JsonData(j, json_files[j].ver)[i]
                /\ "file_cache.json" \notin readonly_caches
                      => Entry(file_cache, j) = <<get_json_hash(j, json_files[j]).hex>>

(***************************************************************************)
(* C23: wherever a markdown run dies, the cache file is a complete JSON    *)
(* text and holds either the cache of before the run or the new cache.     *)
(***************************************************************************)
C23_CacheWriteAtomic ==
    md_call.pc = "crashed" =>
        /\ ~md_call.torn
        /\ chunk_cache \in {md_call.before, md_call.cache}

(***************************************************************************)
(* C27: whatever the order in which the page workers end, a slot of texts  *)
(* only ever holds the text (or the error text) of its own page, no slot   *)
(* is written twice, and at the join every slot has been written once and  *)
(* the output is the texts of the pages 1..page_count in that order.       *)
(***************************************************************************)
C27_PagesReassembledByIndex ==
    ocr_call.pc # "idle" =>
        /\ \A i \in 1..ocr_call.page_count :
               /\ ocr_call.writes[i] <= 1
               /\ ocr_call.texts[i] # <<>> =>
                      ocr_call.texts[i] \in {ocr_page(i, f)[2] : f \in BOOLEAN}
        /\ ocr_call.pc = "joined" =>
               /\ \A i \in 1..ocr_call.page_count : ocr_call.writes[i] = 1
               /\ \E fs \in [1..ocr_call.page_count -> BOOLEAN] :
                      LET RECURSIVE Pages(_)
                          Pages(i) ==
                              IF i > ocr_call.page_count THEN <<>>
                              ELSE IF i = ocr_call.page_count THEN ocr_page(i, fs[i])[2]
                              ELSE ocr_page(i, fs[i])[2] \o <<NL>> \o Pages(i + 1)
                      IN ocr_call.out = Pages(1)

\* pages joined after page 2 was collected before page 1, page 1 having
\* failed
C27_Witness ==
    /\ ocr_call.pc = "joined"
    /\ ocr_call.page_count >= 2
    /\ ocr_call.collected[1] = 2 /\ ocr_call.collected[2] = 1
    /\ ocr_call.texts[1][1] = "[ERROR page "
    /\ ocr_call.texts[2][1] = "text of page "

\* C24: a /search request that is answered while reload_vectors replaces the
\* database returns what search_vectors returns on one complete database
\* that was the served one during the request: scores, metadata and contents
\* are never taken from two different databases or from a cut pickle.
C24_QueryOnOneSnapshot ==
    (search_call.pc = "done" /\ response.status = 200) =>
        \E database \in search_call.served :
            /\ database.loaded
            /\ Len(database.embeddings) = Len(database.message_metadata)
            /\ response.ranked = search_vectors(request.query, database,
                                                ParseTopK(request.top_k_raw),
                                                response.argsorted)

\* a search was answered with results although the database was replaced
\* between its None check and its last step
C24_Witness ==
    /\ search_call.pc = "done"
    /\ response.status = 200
    /\ Len(response.ranked) > 0
    /\ Cardinality(search_call.served) > 1
    /\ vector_database # search_call.vector_database

\* C28: a reload that finds no loadable vectors.pkl leaves the served
\* database as it was, a database that was loaded is never absent again, and
\* a request that arrives while none is loaded is answered 500 with nothing
\* searched.
C28_FailedReloadKeepsDatabase ==
    [][/\ (last_op' = "reload" /\ ~vectors_pkl.loaded) =>
              vector_database' = vector_database
       /\ vector_database.loaded => vector_database'.loaded
       /\ (~vector_database.loaded /\ request = NoRequest /\ request' # NoRequest) =>
              response' \in {ErrorResponse(500), ContextResponse(500, <<>>, <<>>)}]_vars

\* a reload failed on a cut or missing vectors.pkl while a database was served
C28_Witness ==
    /\ last_op = "reload"
    /\ ~vectors_pkl.loaded
    /\ vector_database.loaded

====
